---- MODULE Spec2Model ----
(***************************************************************************)
(* A model of the CHIP-8 interpreter of src/wasm/chip8/chip8.cpp.          *)
(*                                                                         *)
(* The interpreter is a set of global arrays and scalars and a handful of  *)
(* exported functions (init, loadProgram, emulateCycle, run, setKeyDown,   *)
(* setKeyUp).  The variables below are those globals under their source    *)
(* names; there is one action per exported function.  The machine is also  *)
(* handled as a record (Cur) so that emulateCycle can be applied ten times *)
(* inside run.                                                             *)
(*                                                                         *)
(* Integers keep their C width: V, memory, sp and the timers are taken     *)
(* modulo 2^8; I, pc and the stack entries modulo 2^16.                     *)
(*                                                                         *)
(* An array access outside its bounds is undefined behaviour in C++.  The  *)
(* model records the first such access in the history variable `fault`     *)
(* and stops there: from that point the program has no defined state, so   *)
(* no action is enabled and the other variables keep the values they had   *)
(* before the offending call.                                              *)
(*                                                                         *)
(* Time is counted in units of 1/60 ms, so that TIMER_INTERVAL_MS          *)
(* (1000/60 ms) is the integer 1000.                                       *)
(*                                                                         *)
(* The two large arrays are held in a compact form: `memory` is the        *)
(* function from the addresses whose byte is not 0 to that byte, and       *)
(* `screen` is the set of the pixel indices whose value is 1 (the code     *)
(* only ever stores 0 or 1 in a pixel).  Mem, MemWrite, Pixel and          *)
(* PixelXor read and write them as the arrays they stand for.              *)
(*                                                                         *)
(* The Atari 2600 stub of src/wasm/atari2600/main.cpp is modelled beside   *)
(* it: its globals are the record `atari`, its exported functions the      *)
(* actions of AtariNext, and AtariSpec is its specification.  The CHIP-8   *)
(* actions leave it alone and its actions leave the CHIP-8 machine alone.  *)
(***************************************************************************)
EXTENDS Integers, Sequences, FiniteSets, TLC

\* ------------------------------------------------------------ constants

SCREEN_WIDTH == 64

SCREEN_HEIGHT == 32

MEMORY_SIZE == 4096

NUM_REGISTERS == 16

STACK_SIZE == 16

NUM_KEYS == 16

PROGRAM_START == 512

FONT_START == 80

CYCLES_PER_RUN == 10

\* 1 ms in model time units (1/60 ms).
UNITS_PER_MS == 60

\* TIMER_INTERVAL_MS = 1000/60 ms, in model time units.
TIMER_INTERVAL == 1000

FONTSET ==
    << 240, 144, 144, 144, 240,
        32,  96,  32,  32, 112,
       240,  16, 240, 128, 240,
       240,  16, 240,  16, 240,
       144, 144, 240,  16,  16,
       240, 128, 240,  16, 240,
       240, 128, 240, 144, 240,
       240,  16,  32,  64,  64,
       240, 144, 240, 144, 240,
       240, 144, 240,  16, 240,
       240, 144, 240, 144, 144,
       224, 144, 224, 144, 224,
       240, 128, 128, 128, 240,
       224, 144, 144, 144, 224,
       240, 128, 240, 128, 240,
       240, 128, 240, 128, 128 >>

\* --------------------------------------------------------------- bounds

\* Direct emulateCycle calls modelled since power-on.
MaxSteps == 2

\* run calls modelled since power-on (ten emulateCycle calls each).
MaxRuns == 2

\* loadProgram calls modelled since power-on.
MaxLoads == 1

\* init calls modelled since power-on.
MaxInits == 1

\* Calls of the Atari 2600 stub's exported functions modelled since
\* power-on.
MaxAtariCalls == 5

\* ------------------------------------------------------ integer helpers

Byte == 0..255

U8(n) == n % 256

U16(n) == n % 65536

Bit(v, i) == (v \div (2 ^ i)) % 2

BitAnd(a, b) ==
    LET f[i \in 0..8] ==
          IF i = 8 THEN 0
          ELSE (IF Bit(a, i) = 1 /\ Bit(b, i) = 1 THEN 2 ^ i ELSE 0) + f[i + 1]
    IN  f[0]

BitOr(a, b) ==
    LET f[i \in 0..8] ==
          IF i = 8 THEN 0
          ELSE (IF Bit(a, i) = 1 \/ Bit(b, i) = 1 THEN 2 ^ i ELSE 0) + f[i + 1]
    IN  f[0]

BitXor(a, b) ==
    LET f[i \in 0..8] ==
          IF i = 8 THEN 0
          ELSE (IF Bit(a, i) # Bit(b, i) THEN 2 ^ i ELSE 0) + f[i + 1]
    IN  f[0]

\* ---------------------------------------------------------------- state

VARIABLES
    screen,            \* uint8_t screen[64 * 32]: the indices of the pixels set
    memory,            \* uint8_t memory[4096]: the non-zero bytes, by address
    V,                 \* uint8_t V[16]
    I,                 \* uint16_t I
    pc,                \* uint16_t pc
    stack,             \* uint16_t stack[16]
    sp,                \* uint8_t sp
    delayTimer,        \* uint8_t delayTimer
    soundTimer,        \* uint8_t soundTimer
    keys,              \* uint8_t keys[16]
    timerAccumulator,  \* float timerAccumulator, in 1/60 ms
    fault,             \* history: the first out-of-bounds access, or "none"
    last,              \* history: the last exported call and the opcodes it ran
    nSteps,            \* history: direct emulateCycle calls so far
    nRuns,             \* history: run calls so far
    nLoads,            \* history: loadProgram calls so far
    nInits,            \* history: init calls so far
    atari,             \* the globals of the Atari 2600 stub, as a record
    atariLast,         \* history: the last exported call of the stub
    nAtariCalls        \* history: exported calls of the stub so far

machine ==
    << screen, memory, V, I, pc, stack, sp, delayTimer, soundTimer, keys,
       timerAccumulator, fault >>

chip8Vars == << machine, last, nSteps, nRuns, nLoads, nInits >>

atariVars == << atari, atariLast, nAtariCalls >>

vars == << chip8Vars, atariVars >>

\* The machine as a record.
Cur ==
    [ screen |-> screen, memory |-> memory, V |-> V, I |-> I, pc |-> pc,
      stack |-> stack, sp |-> sp, delayTimer |-> delayTimer,
      soundTimer |-> soundTimer, keys |-> keys,
      timerAccumulator |-> timerAccumulator, fault |-> fault ]

Install(s) ==
    /\ screen' = s.screen
    /\ memory' = s.memory
    /\ V' = s.V
    /\ I' = s.I
    /\ pc' = s.pc
    /\ stack' = s.stack
    /\ sp' = s.sp
    /\ delayTimer' = s.delayTimer
    /\ soundTimer' = s.soundTimer
    /\ keys' = s.keys
    /\ timerAccumulator' = s.timerAccumulator
    /\ fault' = s.fault

\* Static initialisation of the globals (all zero).
PowerOn ==
    [ screen |-> {},
      memory |-> << >>,
      V |-> [r \in 0..(NUM_REGISTERS - 1) |-> 0],
      I |-> 0,
      pc |-> 0,
      stack |-> [d \in 0..(STACK_SIZE - 1) |-> 0],
      sp |-> 0,
      delayTimer |-> 0,
      soundTimer |-> 0,
      keys |-> [k \in 0..(NUM_KEYS - 1) |-> 0],
      timerAccumulator |-> 0,
      fault |-> "none" ]

Undefined(s, what) == [s EXCEPT !.fault = what]

\* ------------------------------------------------- the two large arrays

Addresses == 0..(MEMORY_SIZE - 1)

\* memory[a], for a in 0 .. 4095.
Mem(mem, a) == IF a \in DOMAIN mem THEN mem[a] ELSE 0

\* The array that holds g[a] at every a of DOMAIN g and mem[a] elsewhere.
MemFill(mem, g) ==
    LET D == { a \in DOMAIN g : g[a] # 0 } \cup (DOMAIN mem \ DOMAIN g)
    IN  [a \in D |-> IF a \in DOMAIN g THEN g[a] ELSE mem[a]]

\* memory[a] = v.
MemWrite(mem, a, v) == MemFill(mem, [b \in {a} |-> v])

Pixels == 0..(SCREEN_WIDTH * SCREEN_HEIGHT - 1)

\* screen[p], for p in 0 .. 2047.
Pixel(scr, p) == IF p \in scr THEN 1 ELSE 0

\* screen[p] |= bit.
PixelOr(scr, p, bit) == IF bit # 0 THEN scr \cup {p} ELSE scr

\* screen[p] ^= bit, for bit in {0, 1}.
PixelXor(scr, p, bit) ==
    IF BitXor(Pixel(scr, p), bit) # 0 THEN scr \cup {p} ELSE scr \ {p}

\* --------------------------------------------------- cls, init, load

\* cls(): memset(screen, 0, SCREEN_WIDTH * SCREEN_HEIGHT).
\* A clear that zeroes only the first row of the screen buffer.
clsFirstRow(s) ==
    [s EXCEPT !.screen = @ \ (0..(SCREEN_WIDTH - 1))]

cls(s) ==
    [s EXCEPT !.screen = {}]

\* init(): srand, cls, V := 0, I := 0, pc := 0x200, font copied to 0x50.
\* Nothing else is assigned.  The seed is not state of the model: rand()
\* is an arbitrary byte wherever it is used.
\* An init() that XORs the font into memory instead of copying it.
InitMachineXorFont(s) ==
    [cls(s) EXCEPT
        !.V = [r \in 0..(NUM_REGISTERS - 1) |-> 0],
        !.I = 0,
        !.pc = PROGRAM_START,
        !.memory = MemFill(s.memory,
                           [a \in FONT_START..(FONT_START + Len(FONTSET) - 1)
                               |-> BitXor(Mem(s.memory, a),
                                          FONTSET[a - FONT_START + 1])])]

InitMachine(s) ==
    [cls(s) EXCEPT
        !.V = [r \in 0..(NUM_REGISTERS - 1) |-> 0],
        !.I = 0,
        !.pc = PROGRAM_START,
        !.memory = MemFill(s.memory,
                           [a \in FONT_START..(FONT_START + Len(FONTSET) - 1)
                               |-> FONTSET[a - FONT_START + 1]])]

\* loadProgram(program, size): memcpy(memory + 0x200, program, size);
\* pc = 0x200.  memcpy takes the size as it is given (a negative int
\* converts to a huge size_t): a copy that passes the end of the array
\* writes out of bounds.
LoadMachine(s, program, size) ==
    IF size < 0 \/ PROGRAM_START + size > MEMORY_SIZE
    THEN Undefined(s, "memcpy")
    ELSE [s EXCEPT
            !.memory = MemFill(s.memory,
                               [a \in PROGRAM_START..(PROGRAM_START + size - 1)
                                   |-> program[a - PROGRAM_START + 1]]),
            !.pc = PROGRAM_START]

\* ------------------------------------------------------- opcode fields

\* The fetch reads memory[pc] and memory[pc + 1].
FetchInRange(s) == s.pc + 1 < MEMORY_SIZE

NoOpcode == 0 - 1

Opcode(s) ==
    IF FetchInRange(s)
    THEN Mem(s.memory, s.pc) * 256 + Mem(s.memory, s.pc + 1)
    ELSE NoOpcode

Class(opcode) == opcode \div 4096

X(opcode) == (opcode \div 256) % 16

Y(opcode) == (opcode \div 16) % 16

N(opcode) == opcode % 16

NN(opcode) == opcode % 256

NNN(opcode) == opcode % 4096

Advance(s, n) == [s EXCEPT !.pc = U16(s.pc + n)]

\* ------------------------------------------------ instruction handlers

\* 00EE with the guard removed: sp-- on a uint8_t and a read of stack[sp].
RetUnguarded(s) ==
    LET d == U8(s.sp - 1)
    IN  IF d < STACK_SIZE
        THEN [s EXCEPT !.sp = d, !.pc = s.stack[d]]
        ELSE [s EXCEPT !.sp = d, !.fault = "stack"]

\* 00EE - RET.
Ret(s) ==
    IF s.sp > 0
    THEN [s EXCEPT !.sp = s.sp - 1, !.pc = s.stack[s.sp - 1]]
    ELSE Advance(s, 2)

\* 0x0000 class: 00E0, 00EE, or unsupported.
OpSystem(s, opcode) ==
    IF opcode = 224 THEN Advance(cls(s), 2)
    ELSE IF opcode = 238 THEN Ret(s)
    ELSE Advance(s, 2)

\* 1NNN - JP addr.
OpJump(s, opcode) == [s EXCEPT !.pc = NNN(opcode)]

\* 2NNN pushing the address of the call itself instead of pc + 2.
OpCallPushingPc(s, opcode) ==
    IF s.sp < STACK_SIZE
    THEN [s EXCEPT !.stack[s.sp] = s.pc,
                   !.sp = s.sp + 1,
                   !.pc = NNN(opcode)]
    ELSE Advance(s, 2)

\* 2NNN that on a full stack overwrites the top frame and jumps.
OpCallOverwriting(s, opcode) ==
    LET slot == IF s.sp < STACK_SIZE THEN s.sp ELSE STACK_SIZE - 1
    IN  [s EXCEPT !.stack[slot] = U16(s.pc + 2),
                  !.sp = slot + 1,
                  !.pc = NNN(opcode)]

\* 2NNN - CALL addr.
OpCall(s, opcode) ==
    IF s.sp < STACK_SIZE
    THEN [s EXCEPT !.stack[s.sp] = U16(s.pc + 2),
                   !.sp = s.sp + 1,
                   !.pc = NNN(opcode)]
    ELSE Advance(s, 2)

\* 3XNN - SE Vx, byte.
OpSkipEqImm(s, opcode) ==
    IF s.V[X(opcode)] = NN(opcode) THEN Advance(s, 4) ELSE Advance(s, 2)

\* 4XNN - SNE Vx, byte.
OpSkipNeImm(s, opcode) ==
    IF s.V[X(opcode)] # NN(opcode) THEN Advance(s, 4) ELSE Advance(s, 2)

\* case 0x5000: the low nibble is not examined; skips when Vx != Vy.
OpSkipReg5(s, opcode) ==
    IF s.V[X(opcode)] # s.V[Y(opcode)] THEN Advance(s, 4) ELSE Advance(s, 2)

\* 6XNN - LD Vx, byte.
OpLoadImm(s, opcode) ==
    Advance([s EXCEPT !.V[X(opcode)] = NN(opcode)], 2)

\* 7XNN that also writes the carry of the addition to VF.
OpAddImmCarry(s, opcode) ==
    LET sum == s.V[X(opcode)] + NN(opcode)
    IN  Advance([s EXCEPT !.V = [[s.V EXCEPT ![15] = sum \div 256]
                                    EXCEPT ![X(opcode)] = sum % 256]], 2)

\* 7XNN - ADD Vx, byte.
OpAddImm(s, opcode) ==
    Advance([s EXCEPT !.V[X(opcode)] = U8(@ + NN(opcode))], 2)

\* 8XY_ - register-register operations.  The flag is written first and
\* Vx second, as in the source.
OpAlu(s, opcode) ==
    LET x == X(opcode)
        y == Y(opcode)
        vx == s.V[x]
        vy == s.V[y]
        n == N(opcode)
        SetF(f) == [s.V EXCEPT ![15] = f]
    IN  CASE n = 0 -> Advance([s EXCEPT !.V[x] = vy], 2)
          [] n = 1 -> Advance([s EXCEPT !.V[x] = BitOr(vx, vy)], 2)
          [] n = 2 -> Advance([s EXCEPT !.V[x] = BitAnd(vx, vy)], 2)
          [] n = 3 -> Advance([s EXCEPT !.V[x] = BitXor(vx, vy)], 2)
          [] n = 4 ->
               LET sum == vx + vy
               IN  Advance([s EXCEPT !.V = [SetF(IF sum > 255 THEN 1 ELSE 0)
                                              EXCEPT ![x] = sum % 256]], 2)
          [] n = 5 ->
               LET W == SetF(IF vx > vy THEN 1 ELSE 0)
               IN  Advance([s EXCEPT !.V = [W EXCEPT ![x] = U8(W[x] - W[y])]], 2)
          [] n = 6 ->
               LET W == SetF(vx % 2)
               IN  Advance([s EXCEPT !.V = [W EXCEPT ![x] = W[x] \div 2]], 2)
          [] n = 7 ->
               LET W == SetF(IF vy > vx THEN 1 ELSE 0)
               IN  Advance([s EXCEPT !.V = [W EXCEPT ![x] = U8(W[y] - W[x])]], 2)
          [] n = 14 ->
               LET W == SetF(vx \div 128)
               IN  Advance([s EXCEPT !.V = [W EXCEPT ![x] = U8(W[x] * 2)]], 2)
          [] OTHER -> Advance(s, 2)

\* 9XY0 - SNE Vx, Vy (the low nibble is not examined).
OpSkipReg9(s, opcode) ==
    IF s.V[X(opcode)] # s.V[Y(opcode)] THEN Advance(s, 4) ELSE Advance(s, 2)

\* ANNN - LD I, addr.
OpLoadI(s, opcode) == Advance([s EXCEPT !.I = NNN(opcode)], 2)

\* BNNN - JP V0, addr.
OpJumpV0(s, opcode) == [s EXCEPT !.pc = U16(NNN(opcode) + s.V[0])]

\* CXNN - RND Vx, byte; r is the byte rand() % 256 yields.
OpRandom(s, opcode, r) ==
    Advance([s EXCEPT !.V[X(opcode)] = BitAnd(r, NN(opcode))], 2)

\* The collision test made on the pixel after the XOR.
CollidesAfterXor(scr, p, spritePixel) ==
    Pixel(PixelXor(scr, p, spritePixel), p) # 0 /\ spritePixel # 0

\* if (screen[sy * SCREEN_WIDTH + sx] && spritePixel): the test made on
\* the pixel before the XOR.
Collides(scr, p, spritePixel) == Pixel(scr, p) # 0 /\ spritePixel # 0

\* DXYN, the inner loop: the eight pixels of one sprite row, left to right.
\* Each pixel is tested and then XORed, in place, before the next one.
RECURSIVE DrawCols(_, _, _, _, _, _, _)
DrawCols(scr, collision, spriteByte, x, y, row, col) ==
    IF col >= 8
    THEN [screen |-> scr, collision |-> collision]
    ELSE LET spritePixel == Bit(spriteByte, 7 - col)
             sx == (x + col) % SCREEN_WIDTH
             sy == (y + row) % SCREEN_HEIGHT
             p == sy * SCREEN_WIDTH + sx
         IN  IF Collides(scr, p, spritePixel)
             THEN DrawCols(PixelXor(scr, p, spritePixel), 1,
                           spriteByte, x, y, row, col + 1)
             ELSE DrawCols(PixelXor(scr, p, spritePixel), collision,
                           spriteByte, x, y, row, col + 1)

\* DXYN, the outer loop: rows 0 .. height - 1, read from memory[I + row].
RECURSIVE DrawRows(_, _, _, _, _, _, _, _)
DrawRows(scr, collision, mem, i, x, y, height, row) ==
    IF row >= height
    THEN [screen |-> scr, collision |-> collision]
    ELSE LET r == DrawCols(scr, collision, Mem(mem, i + row), x, y, row, 0)
         IN  IF r.collision # 0
             THEN DrawRows(r.screen, 1, mem, i, x, y, height, row + 1)
             ELSE DrawRows(r.screen, 0, mem, i, x, y, height, row + 1)

\* The sprite blit of DXYN: the screen after it and the collision flag.
DrawSprite(scr, mem, i, x, y, height) ==
    DrawRows(scr, 0, mem, i, x, y, height, 0)

\* The rows of a sprite of this height at I are all inside memory.
SpriteInRange(i, height) == height = 0 \/ i + height - 1 < MEMORY_SIZE

\* DXYN - DRW Vx, Vy, nibble.
OpDraw(s, opcode) ==
    LET x == s.V[X(opcode)]
        y == s.V[Y(opcode)]
        height == N(opcode)
    IN  IF ~SpriteInRange(s.I, height)
        THEN Undefined(s, "sprite")
        ELSE LET d == DrawSprite(s.screen, s.memory, s.I, x, y, height)
             IN  Advance([s EXCEPT !.screen = d.screen,
                                   !.V[15] = d.collision], 2)


\* Ex9E / ExA1 with the key index not masked to 4 bits: an index past 15
\* reads outside keys[].
OpKeyTestUnmasked(s, opcode) ==
    LET key == s.V[X(opcode)]
        kk == NN(opcode)
    IN  IF key >= NUM_KEYS THEN Undefined(s, "keys")
        ELSE CASE kk = 158 -> Advance(s, IF s.keys[key] # 0 THEN 4 ELSE 2)
               [] kk = 161 -> Advance(s, IF s.keys[key] = 0 THEN 4 ELSE 2)
               [] OTHER -> Advance(s, 2)

\* EX9E / EXA1 - key tests; key = V[x] & 0x0F.
OpKeyTest(s, opcode) ==
    LET key == BitAnd(s.V[X(opcode)], 15)
        kk == NN(opcode)
    IN  CASE kk = 158 -> Advance(s, IF s.keys[key] # 0 THEN 4 ELSE 2)
          [] kk = 161 -> Advance(s, IF s.keys[key] = 0 THEN 4 ELSE 2)
          [] OTHER -> Advance(s, 2)

\* Fx0A with the scan not stopped at the first key down: the last key down
\* is the one stored.
KeyWaitLast(s, x, k) ==
    LET Down == {j \in k..(NUM_KEYS - 1) : s.keys[j] # 0}
    IN  IF Down = {} THEN s
        ELSE Advance([s EXCEPT !.V[x] =
                         CHOOSE j \in Down : \A i \in Down : i <= j], 2)

\* Fx0A that stores the first key down but never advances pc.
KeyWaitHolding(s, x, k) ==
    LET Down == {j \in k..(NUM_KEYS - 1) : s.keys[j] # 0}
    IN  IF Down = {} THEN s
        ELSE [s EXCEPT !.V[x] = CHOOSE j \in Down : \A i \in Down : j <= i]

\* Fx0A, the scan for k = 0 .. 15: the first key down is stored and pc
\* advances; with no key down nothing changes.
RECURSIVE KeyWait(_, _, _)
KeyWait(s, x, k) ==
    IF k >= NUM_KEYS THEN s
    ELSE IF s.keys[k] # 0 THEN Advance([s EXCEPT !.V[x] = k], 2)
    ELSE KeyWait(s, x, k + 1)

\* Fx0A with pc advanced whether or not a key was found.
OpKeyWaitAdvancing(s, x) ==
    LET w == KeyWait(s, x, 0)
    IN  IF w.pc = s.pc THEN Advance(w, 2) ELSE w

\* Fx0A that releases the key it has stored.
OpKeyWaitConsuming(s, x) ==
    LET w == KeyWait(s, x, 0)
    IN  IF w.pc = s.pc THEN w ELSE [w EXCEPT !.keys[w.V[x]] = 0]

\* Fx0A - LD Vx, K.
OpKeyWait(s, x) == KeyWait(s, x, 0)

\* Fx33 with the tens byte not reduced modulo 10.
OpBcdTens(s, x) ==
    IF s.I + 2 >= MEMORY_SIZE
    THEN Undefined(s, "bcd")
    ELSE LET value == s.V[x]
             m1 == MemWrite(s.memory, s.I, value \div 100)
             m2 == MemWrite(m1, s.I + 1, value \div 10)
             m3 == MemWrite(m2, s.I + 2, value % 10)
         IN  Advance([s EXCEPT !.memory = m3], 2)

\* Fx33 - BCD of Vx at I, I + 1, I + 2.
OpBcd(s, x) ==
    IF s.I + 2 >= MEMORY_SIZE
    THEN Undefined(s, "bcd")
    ELSE LET value == s.V[x]
             m1 == MemWrite(s.memory, s.I, value \div 100)
             m2 == MemWrite(m1, s.I + 1, (value \div 10) % 10)
             m3 == MemWrite(m2, s.I + 2, value % 10)
         IN  Advance([s EXCEPT !.memory = m3], 2)

\* Fx55 that leaves I behind the last byte stored.
OpStoreAdvancingI(s, x) ==
    IF s.I + x >= MEMORY_SIZE
    THEN Undefined(s, "store")
    ELSE Advance([s EXCEPT !.memory = MemFill(s.memory,
                                              [a \in (s.I)..(s.I + x)
                                                  |-> s.V[a - s.I]]),
                           !.I = U16(s.I + x + 1)], 2)

\* Fx55 - memory[I + i] = V[i] for i = 0 .. x.
OpStore(s, x) ==
    IF s.I + x >= MEMORY_SIZE
    THEN Undefined(s, "store")
    ELSE Advance([s EXCEPT !.memory = MemFill(s.memory,
                                              [a \in (s.I)..(s.I + x)
                                                  |-> s.V[a - s.I]])], 2)

\* Fx65 - V[i] = memory[I + i] for i = 0 .. x.
OpLoad(s, x) ==
    IF s.I + x >= MEMORY_SIZE
    THEN Undefined(s, "load")
    ELSE Advance([s EXCEPT !.V = [r \in 0..(NUM_REGISTERS - 1) |->
                                    IF r <= x THEN Mem(s.memory, s.I + r)
                                    ELSE s.V[r]]], 2)

\* Fx15 - LD DT, Vx.
OpSetDelay(s, x) == Advance([s EXCEPT !.delayTimer = s.V[x]], 2)

\* Fx18 - LD ST, Vx.
OpSetSound(s, x) == Advance([s EXCEPT !.soundTimer = s.V[x]], 2)

\* Fx-- instructions.
OpMisc(s, opcode) ==
    LET x == X(opcode)
        kk == NN(opcode)
    IN  CASE kk = 7 -> Advance([s EXCEPT !.V[x] = s.delayTimer], 2)
          [] kk = 10 -> OpKeyWait(s, x)
          [] kk = 21 -> OpSetDelay(s, x)
          [] kk = 24 -> OpSetSound(s, x)
          [] kk = 30 -> Advance([s EXCEPT !.I = U16(s.I + s.V[x])], 2)
          [] kk = 41 -> Advance([s EXCEPT !.I = U16(FONT_START + s.V[x] * 5)], 2)
          [] kk = 51 -> OpBcd(s, x)
          [] kk = 85 -> OpStore(s, x)
          [] kk = 101 -> OpLoad(s, x)
          [] OTHER -> Advance(s, 2)

\* ---------------------------------------------------------- emulateCycle

\* One emulateCycle() from machine s; r is what rand() % 256 yields if the
\* opcode calls it.
Cycle(s, r) ==
    IF ~FetchInRange(s)
    THEN Undefined(s, "fetch")
    ELSE LET opcode == Opcode(s)
             c == Class(opcode)
         IN  CASE c = 0 -> OpSystem(s, opcode)
               [] c = 1 -> OpJump(s, opcode)
               [] c = 2 -> OpCall(s, opcode)
               [] c = 3 -> OpSkipEqImm(s, opcode)
               [] c = 4 -> OpSkipNeImm(s, opcode)
               [] c = 5 -> OpSkipReg5(s, opcode)
               [] c = 6 -> OpLoadImm(s, opcode)
               [] c = 7 -> OpAddImm(s, opcode)
               [] c = 8 -> OpAlu(s, opcode)
               [] c = 9 -> OpSkipReg9(s, opcode)
               [] c = 10 -> OpLoadI(s, opcode)
               [] c = 11 -> OpJumpV0(s, opcode)
               [] c = 12 -> OpRandom(s, opcode, r)
               [] c = 13 -> OpDraw(s, opcode)
               [] c = 14 -> OpKeyTest(s, opcode)
               [] OTHER -> OpMisc(s, opcode)

\* The values rand() % 256 can take where the opcode at pc uses one.
RandOutcomes(s) == IF Class(Opcode(s)) = 12 THEN Byte ELSE {0}

\* What the trace keeps of one emulateCycle() from s to n: the opcode, pc
\* and sp before (pc, sp) and after (npc, nsp), whether all keys were up,
\* and whether the cycle made an out-of-bounds access.
Executed(s, n) ==
    [opcode |-> Opcode(s), pc |-> s.pc, sp |-> s.sp, npc |-> n.pc,
     nsp |-> n.sp, keysUp |-> \A k \in DOMAIN s.keys : s.keys[k] = 0,
     fault |-> n.fault]

\* A configuration is a machine and the trace of the opcodes run so far
\* in the current exported call.  These are its successors by one
\* emulateCycle(); a machine whose behaviour is already undefined is left
\* as it is.
CycleStep(c) ==
    IF c.m.fault # "none" THEN {c}
    ELSE { [m |-> Cycle(c.m, r),
            trace |-> Append(c.trace, Executed(c.m, Cycle(c.m, r)))] :
           r \in RandOutcomes(c.m) }

RECURSIVE Cycles(_, _)
Cycles(C, n) ==
    IF n = 0 THEN C ELSE Cycles(UNION { CycleStep(c) : c \in C }, n - 1)

\* ----------------------------------------------------------------- timers

\* updateTimers() without its tests: both uint8_t counters decremented.
UpdateTimersUnguarded(s) ==
    [s EXCEPT !.delayTimer = U8(@ - 1), !.soundTimer = U8(@ - 1)]

\* The timer loop with the test `timerAccumulator > TIMER_INTERVAL_MS`.
RECURSIVE TimerLoopExceeding(_)
TimerLoopExceeding(s) ==
    IF s.timerAccumulator > TIMER_INTERVAL
    THEN TimerLoopExceeding([s EXCEPT
             !.delayTimer = IF @ > 0 THEN U8(@ - 1) ELSE @,
             !.soundTimer = IF @ > 0 THEN U8(@ - 1) ELSE @,
             !.timerAccumulator = @ - TIMER_INTERVAL])
    ELSE s

\* updateTimers().
updateTimers(s) ==
    [s EXCEPT !.delayTimer = IF @ > 0 THEN U8(@ - 1) ELSE @,
              !.soundTimer = IF @ > 0 THEN U8(@ - 1) ELSE @]

\* while (timerAccumulator >= TIMER_INTERVAL_MS) { updateTimers(); ... }
RECURSIVE TimerLoop(_)
TimerLoop(s) ==
    IF s.timerAccumulator >= TIMER_INTERVAL
    THEN TimerLoop([updateTimers(s) EXCEPT
                       !.timerAccumulator = @ - TIMER_INTERVAL])
    ELSE s

\* Step 2 of run(deltaMs): accumulate, then the decrement loop.
AdvanceTimers(s, deltaMs) ==
    TimerLoop([s EXCEPT !.timerAccumulator = @ + deltaMs * UNITS_PER_MS])

\* run(deltaMs) with the two steps swapped: the timers, then ten cycles.
RunConfigsTimersFirst(s, deltaMs) ==
    Cycles({[m |-> AdvanceTimers(s, deltaMs), trace |-> << >>]},
           CYCLES_PER_RUN)

\* run(deltaMs): ten emulateCycle() calls, then the timers.
RunConfigs(s, deltaMs) ==
    { [m |-> IF c.m.fault # "none" THEN c.m ELSE AdvanceTimers(c.m, deltaMs),
       trace |-> c.trace] :
      c \in Cycles({[m |-> s, trace |-> << >>]}, CYCLES_PER_RUN) }

\* --------------------------------------------------------------- keypad

\* The key setters without the range test: the index taken modulo 16.
SetKeyWrapping(s, key, value) ==
    [s EXCEPT !.keys[key % NUM_KEYS] = value]

\* setKeyDown(key) / setKeyUp(key): value is 1 / 0.
SetKey(s, key, value) ==
    IF key >= 0 /\ key < NUM_KEYS
    THEN [s EXCEPT !.keys[key] = value]
    ELSE s

\* ------------------------------------------------------ display queries

\* getScreen(): the screen buffer, one byte per pixel, row by row.
getScreen(s) == [p \in Pixels |-> Pixel(s.screen, p)]

\* getScreenWidth() and getScreenHeight().
getScreenWidth == SCREEN_WIDTH

getScreenHeight == SCREEN_HEIGHT

\* ------------------------------------------------------------ the inputs

\* The bytes of a program given as 16-bit opcodes, high byte first.
Bytes(words) ==
    [i \in 1..(2 * Len(words)) |->
        IF i % 2 = 1 THEN words[(i + 1) \div 2] \div 256
        ELSE words[i \div 2] % 256]

\* 6005 7003: V0 := 5; V0 += 3.
RomAdd == Bytes(<< \h6005, \h7003 >>)

\* 2200: a call to itself, one level deeper each cycle.
RomCallSelf == Bytes(<< \h2200 >>)

\* Eight calls of 200: sixteen of them fill the stack, the later ones find
\* it full and fall through, one word further each time.
RomCallOver ==
    Bytes(<< \h2200, \h2200, \h2200, \h2200, \h2200, \h2200, \h2200,
             \h2200 >>)

\* The four skips, on registers that are all 0.
RomSkips == Bytes(<< \h5010, \h9010, \h3000, \h4000 >>)

\* VF := 3, V0 := 4, then VF += V0 by 8XY4 with x = 15.
RomCarry == Bytes(<< \h6F03, \h6004, \h8F04 >>)

\* 8XY5 and 8XY7 on equal registers, then V0 := 5 and 8XY5, 8XY7 again.
RomSubtract == Bytes(<< \h8015, \h8017, \h6005, \h8015, \h8017 >>)

\* V0 := 234, I := 0x300, BCD of V0, then idle.
RomBcd == Bytes(<< \h60EA, \hA300, \hF033, \h1206 >>)

\* I := 0x300, V0 := 0xAA, store V0..V1, V0 := 0x11, V1 := 0xBB, five
\* additions to V0, load V0..V1, then idle.
RomStoreLoad ==
    Bytes(<< \hA300, \h60AA, \hF155, \h6011, \h61BB, \h7001, \h7001,
             \h7001, \h7001, \h7001, \hF165, \h1216 >>)

\* 200: call 204; 202: idle; 204: call 208; 206: ret; 208: ret.
RomCallRet == Bytes(<< \h2204, \h1202, \h2208, \h00EE, \h00EE >>)

\* Twelve calls, each of the next word, then at 218 a call of the return
\* at 21C, and an idle loop at 21A.
RomNest ==
    Bytes(<< \h2202, \h2204, \h2206, \h2208, \h220A, \h220C, \h220E,
             \h2210, \h2212, \h2214, \h2216, \h2218, \h221C, \h121A,
             \h00EE >>)

\* 00EE on an empty stack, then an unsupported 0NNN.
RomRet == Bytes(<< \h00EE, \h0123 >>)

\* 1FFF: a jump to the last byte of memory.
RomJumpEnd == Bytes(<< \h1FFF >>)

\* AFFE F033: BCD of V0 at 0xFFE.
RomBcdEnd == Bytes(<< \hAFFE, \hF033 >>)

\* V0 := 62, V1 := 31, I := glyph 0, then draw 5 rows at (62, 31) for ever.
RomDrawWrap == Bytes(<< \h603E, \h611F, \hA050, \hD015, \h1206 >>)

\* Glyph 0 then glyph 1 at (0, 0), 15 rows of font at (0, 0), clear, again.
RomDrawOver ==
    Bytes(<< \hA050, \hD015, \hA055, \hD015, \hD01F, \h00E0, \h1200 >>)

\* V0 := 255 into both timers, V1 := delay timer, V0 := 3 into the delay
\* timer, then idle.
RomTimers ==
    Bytes(<< \h60FF, \hF015, \hF018, \hF107, \h6003, \hF015, \h120C >>)

\* F20A: wait for a key into V2, then E29E, E2A1 and again.
RomKeys == Bytes(<< \hF20A, \hE29E, \hE2A1, \h1200 >>)

\* C003: V0 := rand & 3, then unsupported opcodes of four classes.
RomRandom == Bytes(<< \hC003, \h8008, \hE000, \hF0FF, \h5011, \h9011 >>)

\* A full-size image: 200: jump FFE; 202: ret; ...; FFE: call 202.
RomFull ==
    [i \in 1..(MEMORY_SIZE - PROGRAM_START) |->
        CASE i = 1 -> \h1F
          [] i = 2 -> \hFE
          [] i = 4 -> \hEE
          [] i = MEMORY_SIZE - PROGRAM_START - 1 -> \h22
          [] i = MEMORY_SIZE - PROGRAM_START -> \h02
          [] OTHER -> 0]

\* No program at all.
RomEmpty == << >>

\* An image one byte larger than the space from 0x200 to the end.
RomTooBig == [i \in 1..(MEMORY_SIZE - PROGRAM_START + 1) |-> \hFF]

Programs ==
    { RomAdd, RomCallSelf, RomCallRet, RomNest, RomRet, RomJumpEnd, RomBcdEnd,
      RomDrawWrap, RomDrawOver, RomTimers, RomKeys, RomRandom, RomFull,
      RomEmpty, RomTooBig, RomCallOver, RomSkips, RomCarry, RomSubtract,
      RomBcd, RomStoreLoad }

\* Key arguments: two keys, and one value on each side of 0..15.
KeyInputs == {0 - 1, 1, 5, 16}

\* Elapsed times, in ms: none, and 61 timer periods and half a period, so
\* that a second such tick brings the accumulator to exactly 62 periods.
DeltaInputs == {0, 1025}

\* -------------------------------------------------------------- actions

\* The record kept of the last exported call that is not a key setter: its
\* name, its argument and the cycles it executed.
\* ------------------------------------------ the Atari 2600 stub (main.cpp)

ATARI_MEMORY_SIZE == 4096

\* The address loadProgram() copies the ROM to and sets pc to.
ROM_ORIGIN == 61440

\* The most loadProgram() copies.
ROM_LIMIT == 4096

\* run(): cycles per millisecond.
CYCLES_PER_MS == 1190

\* Elapsed times are given in 1/100 ms.
UNITS_PER_MS_ATARI == 100

\* Static initialisation of the stub's globals.  screen[] is only ever
\* filled with one value: that value stands for the array.
AtariPowerOn ==
    [ screen |-> 0, memory |-> << >>, COLUBK |-> 0, pc |-> 0, A |-> 0,
      X |-> 0, Y |-> 0, status |-> 0, SP |-> 255, fault |-> "none" ]

AtariCalled(call, arg, copied) ==
    [call |-> call, arg |-> arg, copied |-> copied]

\* updateZeroFlag(value): bit 1 of status.
updateZeroFlag(s, value) ==
    [s EXCEPT !.status = IF value = 0 THEN BitOr(@, 2) ELSE BitAnd(@, 253)]

\* init(): screen and memory zeroed, pc = 0, COLUBK = 0.
AtariInitMachine(s) ==
    [s EXCEPT !.screen = 0, !.memory = << >>, !.pc = 0, !.COLUBK = 0]

\* The size loadProgram() copies: a size above 4096 is cut to 4096.
RomSize(size) == IF size > ROM_LIMIT THEN ROM_LIMIT ELSE size

\* loadProgram(romData, size): memcpy(memory + 0xF000, romData, size) with
\* the size cut to 4096; pc = 0xF000.  A copy of one byte or more that
\* passes the end of memory[4096] writes out of bounds, and a negative
\* size converts to a huge size_t.
AtariLoadMachine(s, romData, size) ==
    LET n == RomSize(size)
    IN  IF n < 0 \/ (n > 0 /\ ROM_ORIGIN + n > ATARI_MEMORY_SIZE)
        THEN Undefined(s, "memcpy")
        ELSE [s EXCEPT
                !.memory = MemFill(s.memory,
                                   [a \in ROM_ORIGIN..(ROM_ORIGIN + n - 1)
                                       |-> romData[a - ROM_ORIGIN + 1]]),
                !.pc = ROM_ORIGIN]

\* static_cast<int8_t>(b).
Int8(b) == IF b >= 128 THEN b - 256 ELSE b

\* An instruction that reads memory[pc + 1] .. memory[pc + operands]: an
\* index past the array is an out-of-bounds read.
OperandsInRange(s, operands) == s.pc + operands < ATARI_MEMORY_SIZE

\* The switch of emulateCycle() on the opcode fetched at pc.
AtariExecute(s, opcode) ==
    LET operand == Mem(s.memory, s.pc + 1)
        Step(n, m) == [m EXCEPT !.pc = U16(s.pc + n)]
    IN  CASE opcode = 165 ->
               LET a == Mem(s.memory, operand)
               IN  Step(2, updateZeroFlag([s EXCEPT !.A = a], a))
          [] opcode = 169 ->
               Step(2, updateZeroFlag([s EXCEPT !.A = operand], operand))
          [] opcode = 74 ->
               LET carry == s.A % 2
                   a == s.A \div 2
                   c == [s EXCEPT !.A = a,
                                  !.status = IF carry # 0 THEN BitOr(@, 1)
                                             ELSE BitAnd(@, 254)]
               IN  Step(1, updateZeroFlag(c, a))
          [] opcode = 73 ->
               LET a == BitXor(s.A, operand)
               IN  Step(2, updateZeroFlag([s EXCEPT !.A = a], a))
          [] opcode = 133 ->
               Step(2, [s EXCEPT
                           !.memory = MemWrite(@, operand, s.A),
                           !.COLUBK = IF operand \in {8, 9} THEN s.A ELSE @])
          [] opcode = 160 ->
               Step(2, updateZeroFlag([s EXCEPT !.Y = operand], operand))
          [] opcode = 162 ->
               Step(2, updateZeroFlag([s EXCEPT !.X = operand], operand))
          [] opcode = 202 ->
               LET x == U8(s.X + 255)
               IN  Step(1, updateZeroFlag([s EXCEPT !.X = x], x))
          [] opcode = 208 ->
               IF BitAnd(s.status, 2) = 0
               THEN Step(2 + Int8(operand) + 65536, s)
               ELSE Step(2, s)
          [] opcode = 136 ->
               LET y == U8(s.Y + 255)
               IN  Step(1, updateZeroFlag([s EXCEPT !.Y = y], y))
          [] opcode = 76 ->
               [s EXCEPT !.pc = operand + 256 * Mem(s.memory, s.pc + 2)]
          [] opcode = 230 ->
               LET v == U8(Mem(s.memory, operand) + 1)
                   w == updateZeroFlag(
                            [s EXCEPT !.memory = MemWrite(@, operand, v)], v)
               IN  Step(2, [w EXCEPT
                               !.status = IF v >= 128 THEN BitOr(@, 128)
                                          ELSE BitAnd(@, 127)])
          [] OTHER -> Step(1, s)

\* The bytes after the opcode that its case reads.
AtariOperands(opcode) ==
    CASE opcode \in {165, 169, 73, 133, 160, 162, 208, 230} -> 1
      [] opcode = 76 -> 2
      [] OTHER -> 0

\* emulateCycle(): opcode = memory[pc], then the switch.  A fetch or an
\* operand read at an index past 4095 is an out-of-bounds read.
AtariCycle(s) ==
    IF s.fault # "none" THEN s
    ELSE IF s.pc >= ATARI_MEMORY_SIZE THEN Undefined(s, "fetch")
    ELSE LET opcode == Mem(s.memory, s.pc)
         IN  IF ~OperandsInRange(s, AtariOperands(opcode))
             THEN Undefined(s, "operand")
             ELSE AtariExecute(s, opcode)

\* n calls of emulateCycle(), one after the other.
RECURSIVE AtariCycles(_, _)
AtariCycles(s, n) ==
    IF s.fault # "none" \/ n <= 0 THEN s
    ELSE IF n = 1 THEN AtariCycle(s)
    ELSE AtariCycles(AtariCycles(s, n \div 2), n - n \div 2)

\* run(deltaMs): static_cast<int>(deltaMs * 1190.0) cycles, then
\* memset(screen, COLUBK, sizeof(screen)).
AtariRunMachine(s, delta) ==
    LET cyclesToRun == (delta * CYCLES_PER_MS) \div UNITS_PER_MS_ATARI
        c == AtariCycles(s, cyclesToRun)
    IN  IF c.fault # "none" THEN c ELSE [c EXCEPT !.screen = c.COLUBK]

\* ROM images the host loads into the stub, with the size it passes.
\* LDA #$1E; STA $09; JMP $F000.
AtariRomColour == << 169, 30, 133, 9, 76, 0, 240 >>

AtariRomNone == << >>

\* A 4 KB cartridge of INC $80 and one of a byte more.
AtariRom4K == [i \in 1..4096 |-> IF i % 2 = 1 THEN 230 ELSE 128]

AtariRomOver == [i \in 1..4097 |-> IF i % 2 = 1 THEN 230 ELSE 128]

AtariRoms == {AtariRomNone, AtariRomColour, AtariRom4K, AtariRomOver}

\* Elapsed times, in 1/100 ms: none, 59 cycles, 1190 cycles and a frame
\* of 16.67 ms.
AtariDeltaInputs == {0, 5, 100, 1667}

Called(call, arg, trace) == [call |-> call, arg |-> arg, trace |-> trace]

Init ==
    /\ screen = PowerOn.screen
    /\ memory = PowerOn.memory
    /\ V = PowerOn.V
    /\ I = PowerOn.I
    /\ pc = PowerOn.pc
    /\ stack = PowerOn.stack
    /\ sp = PowerOn.sp
    /\ delayTimer = PowerOn.delayTimer
    /\ soundTimer = PowerOn.soundTimer
    /\ keys = PowerOn.keys
    /\ timerAccumulator = PowerOn.timerAccumulator
    /\ fault = PowerOn.fault
    /\ last = Called("none", 0, << >>)
    /\ nSteps = 0
    /\ nRuns = 0
    /\ nLoads = 0
    /\ nInits = 0
    /\ atari = AtariPowerOn
    /\ atariLast = AtariCalled("none", 0, 0)
    /\ nAtariCalls = 0

init ==
    /\ fault = "none"
    /\ nInits < MaxInits
    /\ Install(InitMachine(Cur))
    /\ last' = Called("init", 0, << >>)
    /\ nInits' = nInits + 1
    /\ UNCHANGED << nSteps, nRuns, nLoads >>
    /\ UNCHANGED atariVars

loadProgram ==
    /\ fault = "none"
    /\ nLoads < MaxLoads
    /\ \E program \in Programs :
         /\ Install(LoadMachine(Cur, program, Len(program)))
         /\ last' = Called("loadProgram", Len(program), << >>)
    /\ nLoads' = nLoads + 1
    /\ UNCHANGED << nSteps, nRuns, nInits >>
    /\ UNCHANGED atariVars

\* The host is taken to load a program before it executes any of it: the
\* two executing calls are modelled once loadProgram has been called.
emulateCycle ==
    /\ fault = "none"
    /\ nLoads > 0
    /\ nSteps < MaxSteps
    /\ \E c \in CycleStep([m |-> Cur, trace |-> << >>]) :
         /\ Install(c.m)
         /\ last' = Called("emulateCycle", 0, c.trace)
    /\ nSteps' = nSteps + 1
    /\ UNCHANGED << nRuns, nLoads, nInits >>
    /\ UNCHANGED atariVars

run ==
    /\ fault = "none"
    /\ nLoads > 0
    /\ nRuns < MaxRuns
    /\ \E deltaMs \in DeltaInputs :
         \E c \in RunConfigs(Cur, deltaMs) :
            /\ Install(c.m)
            /\ last' = Called("run", deltaMs, c.trace)
    /\ nRuns' = nRuns + 1
    /\ UNCHANGED << nSteps, nLoads, nInits >>
    /\ UNCHANGED atariVars

\* The key setters leave `last` as it is: it names the last call that is
\* not a key setter.
setKeyDown ==
    /\ fault = "none"
    /\ \E key \in KeyInputs : Install(SetKey(Cur, key, 1))
    /\ UNCHANGED << last, nSteps, nRuns, nLoads, nInits >>
    /\ UNCHANGED atariVars

setKeyUp ==
    /\ fault = "none"
    /\ \E key \in KeyInputs : Install(SetKey(Cur, key, 0))
    /\ UNCHANGED << last, nSteps, nRuns, nLoads, nInits >>
    /\ UNCHANGED atariVars

Next ==
    \/ init
    \/ loadProgram
    \/ emulateCycle
    \/ run
    \/ setKeyDown
    \/ setKeyUp

Spec == Init /\ [][Next]_vars

\* An emulateCycle() called while the opcode at pc is Fx0A.
KeyWaitCycle ==
    /\ fault = "none"
    /\ pc + 1 < MEMORY_SIZE
    /\ Mem(memory, pc) \div 16 = 15
    /\ Mem(memory, pc + 1) = 10
    /\ emulateCycle

\* The host keeps calling while the interpreter waits for a key: an
\* emulateCycle() at Fx0A that stays possible is made.
LiveSpec == Spec /\ WF_vars(KeyWaitCycle)

\* ------------------------------------- the exported calls of the stub

atariInit ==
    /\ atari.fault = "none"
    /\ nAtariCalls < MaxAtariCalls
    /\ atari' = AtariInitMachine(atari)
    /\ atariLast' = AtariCalled("init", 0, 0)
    /\ nAtariCalls' = nAtariCalls + 1
    /\ UNCHANGED chip8Vars

atariLoadProgram ==
    /\ atari.fault = "none"
    /\ nAtariCalls < MaxAtariCalls
    /\ \E romData \in AtariRoms :
         /\ atari' = AtariLoadMachine(atari, romData, Len(romData))
         /\ atariLast' = AtariCalled("loadProgram", Len(romData),
                                     RomSize(Len(romData)))
    /\ nAtariCalls' = nAtariCalls + 1
    /\ UNCHANGED chip8Vars

atariEmulateCycle ==
    /\ atari.fault = "none"
    /\ nAtariCalls < MaxAtariCalls
    /\ atari' = AtariCycle(atari)
    /\ atariLast' = AtariCalled("emulateCycle", 0, 0)
    /\ nAtariCalls' = nAtariCalls + 1
    /\ UNCHANGED chip8Vars

atariRun ==
    /\ atari.fault = "none"
    /\ nAtariCalls < MaxAtariCalls
    /\ \E delta \in AtariDeltaInputs :
         /\ atari' = AtariRunMachine(atari, delta)
         /\ atariLast' = AtariCalled("run", delta, 0)
    /\ nAtariCalls' = nAtariCalls + 1
    /\ UNCHANGED chip8Vars

AtariNext ==
    \/ atariInit
    \/ atariLoadProgram
    \/ atariEmulateCycle
    \/ atariRun

AtariSpec == Init /\ [][AtariNext]_vars

\* ------------------------------------------------------- trace helpers

\* The opcodes the last executing call ran.
Trace == last.trace

IsCall(e) == e.opcode # NoOpcode /\ Class(e.opcode) = 2

IsRet(e) == e.opcode = 238

IsDraw(e) == e.opcode # NoOpcode /\ Class(e.opcode) = 13

IsMisc(e, kk) ==
    e.opcode # NoOpcode /\ Class(e.opcode) = 15 /\ NN(e.opcode) = kk

FontRange == FONT_START..(FONT_START + Len(FONTSET) - 1)

\* ------------------------------------------------------------------- C1

\* C1: no memory access uses an address >= 4096: neither the opcode fetch
\* at pc and pc + 1, nor the sprite row reads at I + row, nor the BCD
\* writes at I .. I + 2, nor the bulk register store and load at I + i.
C1_NoAccessPastMemory ==
    fault \notin {"fetch", "sprite", "bcd", "store", "load"}

\* ------------------------------------------------------------------- C2

\* C2: loadProgram never writes a byte outside 0x200 .. 0xFFF, whatever
\* the size, and leaves pc at 0x200.
C2_LoadStaysInsideMemory ==
    last.call = "loadProgram" => fault # "memcpy" /\ pc = PROGRAM_START

\* ------------------------------------------------------------------- C3

\* C3: after init() every memory byte is 0 except the 80 font bytes at
\* 0x50 .. 0x9F, which equal the font table; all 16 registers are 0, the
\* index register is 0 and the display is all zero.
C3_InitClearsMemory ==
    last.call = "init" =>
        /\ \A a \in Addresses :
              Mem(memory, a) =
                  IF a \in FontRange THEN FONTSET[a - FONT_START + 1] ELSE 0
        /\ \A r \in DOMAIN V : V[r] = 0
        /\ I = 0
        /\ \A p \in Pixels : Pixel(screen, p) = 0

\* ------------------------------------------------------------------- C4

\* C4: a call of init() leaves the call stack empty, both timers 0, the
\* timer accumulator 0 and all 16 keys up, as at power-on.
C4_InitResetsAll ==
    [][nInits' # nInits =>
          /\ sp' = PowerOn.sp
          /\ delayTimer' = PowerOn.delayTimer
          /\ soundTimer' = PowerOn.soundTimer
          /\ timerAccumulator' = PowerOn.timerAccumulator
          /\ keys' = PowerOn.keys]_vars

\* ------------------------------------------------------------------- C5

\* C5: the call stack depth is between 0 and 16 in every reachable state,
\* no stack slot outside 0 .. 15 is ever read, and a return executed at
\* depth 0 pops nothing: the depth stays 0 and pc moves on by 2.
C5_StackDepthBounded ==
    /\ sp \in 0..STACK_SIZE
    /\ fault # "stack"
    /\ \A i \in DOMAIN Trace :
          /\ Trace[i].sp \in 0..STACK_SIZE
          /\ Trace[i].nsp \in 0..STACK_SIZE
          /\ (IsRet(Trace[i]) /\ Trace[i].sp = 0) =>
                (Trace[i].nsp = 0 /\ Trace[i].npc = Trace[i].pc + 2)

\* A call was executed at depth 16 and the depth is still 16.
C5_Witness ==
    /\ sp = STACK_SIZE
    /\ \E i \in DOMAIN Trace :
          IsCall(Trace[i]) /\ Trace[i].sp = STACK_SIZE /\ Trace[i].nsp = STACK_SIZE

\* ------------------------------------------------------------------- C6

\* The machine is about to execute a call, at a depth below 16, of an
\* address that holds a return.
AtCallOfReturn(s) ==
    /\ s.fault = "none"
    /\ FetchInRange(s)
    /\ Class(Opcode(s)) = 2
    /\ s.sp < STACK_SIZE
    /\ Opcode([s EXCEPT !.pc = NNN(Opcode(s))]) = 238

\* C6: a call at p of an address that holds a return, followed by that
\* return, leaves pc = p + 2 and the stack depth as before the call, and
\* changes no register, memory byte or display pixel.  Checked on every
\* call and return that ran one after the other, and from every reachable
\* state that is about to execute such a call.
C6_CallReturnRoundTrip ==
    /\ \A i \in DOMAIN Trace :
          (i + 1 \in DOMAIN Trace /\ IsCall(Trace[i])
             /\ Trace[i].sp < STACK_SIZE /\ IsRet(Trace[i + 1])) =>
                /\ Trace[i + 1].npc = Trace[i].pc + 2
                /\ Trace[i + 1].nsp = Trace[i].sp
    /\ AtCallOfReturn(Cur) =>
          LET r == Cycle(Cycle(Cur, 0), 0)
          IN  /\ r.pc = pc + 2
              /\ r.sp = sp
              /\ r.V = V
              /\ r.I = I
              /\ r.memory = memory
              /\ r.screen = screen
              /\ r.fault = "none"

\* A call at a depth of 12 and the return it called have run, and pc is
\* back behind the call.
C6_Witness ==
    \E i \in DOMAIN Trace :
        /\ i + 1 \in DOMAIN Trace
        /\ IsCall(Trace[i])
        /\ Trace[i].sp = 12
        /\ IsRet(Trace[i + 1])
        /\ Trace[i + 1].npc = Trace[i].pc + 2
        /\ Trace[i + 1].nsp = 12

\* ------------------------------------------------------------------- C7

\* Jumps (1NNN, BNNN), call (2NNN), return (00EE) and the skips (3XNN,
\* 4XNN, 5XY0, 9XY0, EX9E, EXA1).
IsControl(opcode) ==
    \/ opcode = 238
    \/ Class(opcode) \in {1, 2, 11, 3, 4}
    \/ Class(opcode) \in {5, 9} /\ N(opcode) = 0
    \/ Class(opcode) = 14 /\ NN(opcode) \in {158, 161}

IsKeyWait(opcode) == Class(opcode) = 15 /\ NN(opcode) = 10

NoKeyDown(s) == \A k \in DOMAIN s.keys : s.keys[k] = 0

\* C7 as claimed: every instruction that is not a jump, call, return or
\* skip - Fx0A in every keypad state and every unsupported opcode
\* included - changes pc by exactly +2 or exactly +4.
C7_PcAdvancesTwoOrFour ==
    /\ \A i \in DOMAIN Trace :
          (Trace[i].fault = "none" /\ ~IsControl(Trace[i].opcode)) =>
              Trace[i].npc - Trace[i].pc \in {2, 4}
    /\ (fault = "none" /\ FetchInRange(Cur) /\ ~IsControl(Opcode(Cur))) =>
          \A r \in RandOutcomes(Cur) :
              Cycle(Cur, r).fault = "none" =>
                  Cycle(Cur, r).pc - pc \in {2, 4}

\* C7 as amended: the same, except that Fx0A executed while no key is down
\* leaves pc unchanged.
C7_PcAdvancesUnlessWaiting ==
    /\ \A i \in DOMAIN Trace :
          (Trace[i].fault = "none" /\ ~IsControl(Trace[i].opcode)) =>
              IF IsKeyWait(Trace[i].opcode) /\ Trace[i].keysUp
              THEN Trace[i].npc = Trace[i].pc
              ELSE Trace[i].npc - Trace[i].pc \in {2, 4}
    /\ (fault = "none" /\ FetchInRange(Cur) /\ ~IsControl(Opcode(Cur))) =>
          \A r \in RandOutcomes(Cur) :
              Cycle(Cur, r).fault = "none" =>
                  IF IsKeyWait(Opcode(Cur)) /\ NoKeyDown(Cur)
                  THEN Cycle(Cur, r).pc = pc
                  ELSE Cycle(Cur, r).pc - pc \in {2, 4}

\* A direct emulateCycle() ran Fx0A with no key down, and the machine is
\* still at that Fx0A.
C7_Witness ==
    /\ last.call = "emulateCycle"
    /\ IsKeyWait(Trace[1].opcode)
    /\ Trace[1].keysUp
    /\ Trace[1].npc = Trace[1].pc
    /\ pc = Trace[1].pc

\* -------------------------------------------------------------- C8, C9

\* Coordinates and heights tried from every state that is about to draw,
\* next to the ones the instruction itself names: inside the screen, across
\* the right and bottom edges, and the largest register value.
DrawXs == {0, 62, 255}
DrawYs == {31, 255}
DrawHeights == {0, 15}

AtDraw(s) ==
    s.fault = "none" /\ FetchInRange(s) /\ Class(Opcode(s)) = 13

\* The draws tried in state s: << x, y, height >>.
DrawsAt(s) ==
    (DrawXs \X DrawYs \X DrawHeights)
        \cup {<< s.V[X(Opcode(s))], s.V[Y(Opcode(s))], N(Opcode(s)) >>}

\* C8: drawing the same sprite (same I, same memory) twice at the same
\* coordinates leaves every display pixel as it was before the first draw,
\* for heights 0..15 and coordinates up to 255, wrapping included.
C8_DrawTwiceRestores ==
    AtDraw(Cur) =>
        \A d \in DrawsAt(Cur) :
            SpriteInRange(I, d[3]) =>
                LET once == DrawSprite(screen, memory, I, d[1], d[2], d[3])
                    twice == DrawSprite(once.screen, memory, I,
                                        d[1], d[2], d[3])
                IN  /\ twice.screen = screen
                    /\ \A q \in screen \cup once.screen :
                          Pixel(twice.screen, q) = Pixel(screen, q)

\* A run drew the same sprite an even number of times across the bottom
\* right corner: the display is blank again and the last draw collided.
C8_Witness ==
    /\ last.call = "run"
    /\ V[0] = 62
    /\ V[1] = 31
    /\ Cardinality({i \in DOMAIN Trace : IsDraw(Trace[i])}) = 4
    /\ \A i \in DOMAIN Trace : IsDraw(Trace[i]) => Trace[i].opcode = 53269
    /\ screen = {}
    /\ V[15] = 1

\* The sprite bit of DXYN at (row, col), and the pixel it targets.
SpriteBit(mem, i, row, col) == Bit(Mem(mem, i + row), 7 - col)

Target(x, y, row, col) ==
    ((y + row) % SCREEN_HEIGHT) * SCREEN_WIDTH + ((x + col) % SCREEN_WIDTH)

\* C9: after DXYN register 15 is 1 iff some target pixel (at wrapped
\* coordinates) was set before the draw and its sprite bit was 1, else 0;
\* every target pixel ends as its old value XOR the sprite bit, and no
\* other pixel changes.
C9_CollisionFlag ==
    AtDraw(Cur) =>
        /\ \A d \in DrawsAt(Cur) :
              SpriteInRange(I, d[3]) =>
                LET r == DrawSprite(screen, memory, I, d[1], d[2], d[3])
                    Cells == (0..(d[3] - 1)) \X (0..7)
                    Hit(c) == /\ SpriteBit(memory, I, c[1], c[2]) = 1
                              /\ Pixel(screen,
                                       Target(d[1], d[2], c[1], c[2])) = 1
                IN  /\ r.collision = IF \E c \in Cells : Hit(c) THEN 1 ELSE 0
                    /\ \A c \in Cells :
                          LET q == Target(d[1], d[2], c[1], c[2])
                          IN  Pixel(r.screen, q) =
                                (Pixel(screen, q)
                                   + SpriteBit(memory, I, c[1], c[2])) % 2
                    /\ LET Targets == {Target(d[1], d[2], c[1], c[2]) :
                                           c \in Cells}
                       IN  r.screen \ Targets = screen \ Targets
        /\ SpriteInRange(I, N(Opcode(Cur))) =>
              LET d == DrawSprite(screen, memory, I, V[X(Opcode(Cur))],
                                  V[Y(Opcode(Cur))], N(Opcode(Cur)))
              IN  /\ Cycle(Cur, 0).V[15] = d.collision
                  /\ Cycle(Cur, 0).screen = d.screen

\* A direct emulateCycle() drew a glyph over another one: register 15 is 1
\* and pixels are left lit.
C9_Witness ==
    /\ last.call = "emulateCycle"
    /\ IsDraw(Trace[1])
    /\ Trace[1].fault = "none"
    /\ V[15] = 1
    /\ screen # {}

\* ------------------------------------------------------------------ C10

\* The step ran an Fx15 (kk = 21) or Fx18 (kk = 24).
RanSet(kk) ==
    /\ nSteps' # nSteps \/ nRuns' # nRuns
    /\ \E i \in DOMAIN last'.trace : IsMisc(last'.trace[i], kk)

TimersInRange ==
    /\ delayTimer \in Byte
    /\ soundTimer \in Byte
    /\ \A d \in DeltaInputs :
          LET a == AdvanceTimers(Cur, d)
          IN  /\ a.delayTimer \in Byte /\ a.delayTimer <= delayTimer
              /\ a.soundTimer \in Byte /\ a.soundTimer <= soundTimer

\* C10: both timers stay in 0..255; a timer increases only in a step that
\* executes its set instruction (Fx15 delay, Fx18 sound); a timer advance
\* never raises a timer, so one at 0 stays at 0 and never wraps to 255.
C10_TimersOnlyCountDown ==
    /\ []TimersInRange
    /\ [][/\ delayTimer' > delayTimer => RanSet(21)
          /\ soundTimer' > soundTimer => RanSet(24)]_vars

\* A run set the delay timer to 3 and the sound timer to 255 and then
\* advanced 61 timer periods: delay stopped at 0, sound is at 194.
C10_Witness ==
    /\ last.call = "run"
    /\ last.arg = 1025
    /\ \E i \in DOMAIN Trace : IsMisc(Trace[i], 21)
    /\ \E i \in DOMAIN Trace : IsMisc(Trace[i], 24)
    /\ delayTimer = 0
    /\ soundTimer = 194

\* ------------------------------------------------------------------ C11

AtKeyWait(s) ==
    s.fault = "none" /\ FetchInRange(s) /\ IsKeyWait(Opcode(s))

KeysDown(s) == {k \in DOMAIN s.keys : s.keys[k] # 0}

\* C11: one step of Fx0A with no key down changes nothing at all; with a
\* key down it stores the lowest index of a key that is down in register x,
\* advances pc by 2 and changes nothing else.  With only key 5 down and
\* x = 2, register 2 becomes 5.
C11_KeyWaitStep ==
    AtKeyWait(Cur) =>
        LET n == Cycle(Cur, 0)
            x == X(Opcode(Cur))
        IN  IF KeysDown(Cur) = {}
            THEN n = Cur
            ELSE /\ n.V[x] \in KeysDown(Cur)
                 /\ \A k \in KeysDown(Cur) : n.V[x] <= k
                 /\ (KeysDown(Cur) = {5} /\ x = 2) => n.V[2] = 5
                 /\ n.pc = pc + 2
                 /\ n = [Cur EXCEPT !.V[x] = n.V[x], !.pc = pc + 2]

\* A direct emulateCycle() ran F20A with a key down and stored key 5, which
\* is still the only key down.
C11_Witness ==
    /\ last.call = "emulateCycle"
    /\ Trace[1].opcode = 61962
    /\ ~Trace[1].keysUp
    /\ pc = Trace[1].pc + 2
    /\ V[2] = 5
    /\ KeysDown(Cur) = {5}

\* ------------------------------------------------------------------ C12

\* Key arguments tried from every state: the ones of KeyInputs, the two
\* ends of the keypad and values far outside it.
KeyArguments == KeyInputs \cup {0, 15, 0 - 16, 17, 256}

\* What a key setter may do to state s with argument k and value v.
KeySetterEffect(s, n, k, v) ==
    IF k \in 0..(NUM_KEYS - 1)
    THEN /\ n.keys[k] = v
         /\ \A j \in DOMAIN s.keys : j # k => n.keys[j] = s.keys[j]
         /\ [n EXCEPT !.keys = s.keys] = s
    ELSE n = s

\* A step of setKeyDown or setKeyUp: the only steps that count no call.
KeySetterStep ==
    /\ nSteps' = nSteps /\ nRuns' = nRuns
    /\ nLoads' = nLoads /\ nInits' = nInits

KeysAsSet == \A k \in KeyArguments : \A v \in {0, 1} :
    KeySetterEffect(Cur, SetKey(Cur, k, v), k, v)

\* C12: setKeyDown(k) and setKeyUp(k) with k outside 0..15 change nothing;
\* with k in 0..15 they set key k down, respectively up, and change no
\* other key and no other state.
C12_KeySetters ==
    /\ []KeysAsSet
    /\ [][KeySetterStep =>
            /\ [Cur EXCEPT !.keys = keys'] =
                  [screen |-> screen', memory |-> memory', V |-> V',
                   I |-> I', pc |-> pc', stack |-> stack', sp |-> sp',
                   delayTimer |-> delayTimer', soundTimer |-> soundTimer',
                   keys |-> keys', timerAccumulator |-> timerAccumulator',
                   fault |-> fault']
            /\ Cardinality({k \in DOMAIN keys : keys'[k] # keys[k]}) = 1
            /\ last' = last]_vars

\* Before any program was loaded, key 5 has been set down and is the only
\* key down.
C12_Witness ==
    /\ nLoads = 0
    /\ KeysDown(Cur) = {5}

\* ------------------------------------------------------------------ C13

\* The bit patterns that are none of the documented instructions.
IsUnsupported(opcode) ==
    \/ Class(opcode) = 0 /\ opcode \notin {224, 238}
    \/ Class(opcode) \in {5, 9} /\ N(opcode) # 0
    \/ Class(opcode) = 8 /\ N(opcode) \in (8..13) \cup {15}
    \/ Class(opcode) = 14 /\ NN(opcode) \notin {158, 161}
    \/ Class(opcode) = 15
          /\ NN(opcode) \notin {7, 10, 21, 24, 30, 41, 51, 85, 101}

\* C13: a step on an undocumented opcode advances pc by exactly 2 and
\* changes no register, memory byte, stack entry, display pixel or timer,
\* and the interpreter can take the next step.
C13_UnsupportedAdvancesTwo ==
    /\ \A i \in DOMAIN Trace :
          (Trace[i].opcode # NoOpcode /\ IsUnsupported(Trace[i].opcode)) =>
              /\ Trace[i].npc = Trace[i].pc + 2
              /\ Trace[i].nsp = Trace[i].sp
              /\ Trace[i].fault = "none"
    /\ (fault = "none" /\ FetchInRange(Cur) /\ IsUnsupported(Opcode(Cur))) =>
          Cycle(Cur, 0) = [Cur EXCEPT !.pc = pc + 2]

\* ------------------------------------------------------------------ C14

\* The machine is about to return with an empty stack, or to call with a
\* full one.
AtStackError(s) ==
    /\ s.fault = "none"
    /\ FetchInRange(s)
    /\ \/ Opcode(s) = 238 /\ s.sp = 0
       \/ Class(Opcode(s)) = 2 /\ s.sp = STACK_SIZE

\* C14: a return on an empty stack and a call on a full stack advance pc
\* by exactly 2, leave the depth and the 16 stored return addresses (and
\* all other state) as they are, and the interpreter goes on.
C14_StackErrorsSkip ==
    /\ \A i \in DOMAIN Trace :
          (\/ IsRet(Trace[i]) /\ Trace[i].sp = 0
           \/ IsCall(Trace[i]) /\ Trace[i].sp = STACK_SIZE) =>
              /\ Trace[i].npc = Trace[i].pc + 2
              /\ Trace[i].nsp = Trace[i].sp
              /\ Trace[i].fault = "none"
    /\ AtStackError(Cur) =>
          /\ Cycle(Cur, 0).stack = stack
          /\ Cycle(Cur, 0).sp = sp
          /\ Cycle(Cur, 0) = [Cur EXCEPT !.pc = pc + 2]

\* Two runs made sixteen calls and then four more on the full stack, each
\* of which fell through; the next instruction is a fifth such call.
C14_Witness ==
    /\ last.call = "run"
    /\ sp = STACK_SIZE
    /\ \A i \in DOMAIN Trace :
          /\ IsCall(Trace[i])
          /\ i > 6 => (Trace[i].sp = STACK_SIZE /\ Trace[i].nsp = STACK_SIZE
                         /\ Trace[i].npc = Trace[i].pc + 2)
    /\ AtStackError(Cur)
    /\ \A k \in DOMAIN stack : stack[k] = PROGRAM_START + 2

\* ------------------------------------------------------------------ C15

\* The timer periods that elapse in a run(deltaMs) from accumulator acc.
Periods(acc, deltaMs) == (acc + deltaMs * UNITS_PER_MS) \div TIMER_INTERVAL

CountDown(timer, periods) == IF timer > periods THEN timer - periods ELSE 0

\* The machine after ten cycles ending in m and a timer advance of deltaMs
\* applied to what those cycles left.
AfterTick(m, deltaMs) ==
    [m EXCEPT
        !.delayTimer =
            CountDown(@, Periods(m.timerAccumulator, deltaMs)),
        !.soundTimer =
            CountDown(@, Periods(m.timerAccumulator, deltaMs)),
        !.timerAccumulator = (@ + deltaMs * UNITS_PER_MS) % TIMER_INTERVAL]

\* C15: a run(deltaMs) that stays inside memory executes exactly ten
\* cycles whatever deltaMs is, and the timer decrements of the tick are
\* applied to the timers as the ten cycles left them.
C15_TenCyclesThenTimers ==
    [][(nRuns' # nRuns /\ fault' = "none") =>
          /\ Len(last'.trace) = CYCLES_PER_RUN
          /\ \E c \in Cycles({[m |-> Cur, trace |-> << >>]}, CYCLES_PER_RUN) :
                /\ c.trace = last'.trace
                /\ AfterTick(c.m, last'.arg) =
                      [screen |-> screen', memory |-> memory', V |-> V',
                       I |-> I', pc |-> pc', stack |-> stack', sp |-> sp',
                       delayTimer |-> delayTimer',
                       soundTimer |-> soundTimer', keys |-> keys',
                       timerAccumulator |-> timerAccumulator',
                       fault |-> fault']]_vars

\* One run of 1025 ms wrote 255 to both timers and then 3 to the delay
\* timer, and took 61 periods off what it had written.
C15_Witness ==
    /\ last.call = "run"
    /\ last.arg = 1025
    /\ nRuns = 1
    /\ nSteps = 0
    /\ Len(Trace) = CYCLES_PER_RUN
    /\ Trace[2].opcode = 61461
    /\ Trace[3].opcode = 61464
    /\ Trace[6].opcode = 61461
    /\ delayTimer = 0
    /\ soundTimer = 194
    /\ timerAccumulator = 500

\* ------------------------------------------------------------------ C16

\* Registers and immediates tried for 6XNN followed by 7XMM.
AddRegisters == {0, 7, 15}
AddImmediates == {0, 5, 200, 255}

\* The program 6xNN 7xMM.
LoadThenAdd(x, nn, mm) ==
    Bytes(<< 6 * 4096 + x * 256 + nn, 7 * 4096 + x * 256 + mm >>)

\* The machine after two emulateCycle() calls from s.
TwoCycles(s) == Cycle(Cycle(s, 0), 0)

\* C16: after loading 60 05 70 03, two cycles leave register 0 = 8 and
\* pc = 0x204; in general 6xNN then 7xMM leave register x = (NN + MM) mod
\* 256, every other register (register 15 included) as it was, and pc
\* advanced by 4.
C16_LoadThenAdd ==
    /\ (last.call = "loadProgram" /\ last.arg = 4 /\ fault = "none"
          /\ \A a \in 1..4 : Mem(memory, PROGRAM_START + a - 1) = RomAdd[a]) =>
              /\ TwoCycles(Cur).V[0] = 8
              /\ TwoCycles(Cur).pc = PROGRAM_START + 4
    /\ fault = "none" =>
          \A x \in AddRegisters : \A nn \in AddImmediates :
              \A mm \in AddImmediates :
                  LET s == LoadMachine(Cur, LoadThenAdd(x, nn, mm), 4)
                      r == TwoCycles(s)
                  IN  /\ r.V[x] = (nn + mm) % 256
                      /\ \A j \in DOMAIN V : j # x => r.V[j] = V[j]
                      /\ r.pc = s.pc + 4
                      /\ r = [s EXCEPT !.V[x] = r.V[x], !.pc = s.pc + 4]

\* After loading 60 05 70 03, two direct emulateCycle() calls were made:
\* register 0 is 8 and pc is 0x204.
C16_Witness ==
    /\ last.call = "emulateCycle"
    /\ nSteps = 2
    /\ nRuns = 0
    /\ Trace[1].opcode = 28675
    /\ Trace[1].pc = PROGRAM_START + 2
    /\ Mem(memory, PROGRAM_START) = 96
    /\ Mem(memory, PROGRAM_START + 1) = 5
    /\ V[0] = 8
    /\ pc = PROGRAM_START + 4

\* ------------------------------------------------------------------ C17

AtClear(s) == s.fault = "none" /\ FetchInRange(s) /\ Opcode(s) = 224

\* C17: after 00E0, from any display content, each of the 64 x 32 pixels
\* the display query returns is 0, pc has advanced by 2, and registers,
\* memory, stack and timers (and all other state) are unchanged.
C17_ClearDisplay ==
    /\ \A i \in DOMAIN Trace :
          Trace[i].opcode = 224 =>
              /\ Trace[i].npc = Trace[i].pc + 2
              /\ Trace[i].nsp = Trace[i].sp
    /\ (\E i \in DOMAIN Trace :
           /\ Trace[i].opcode = 224
           /\ \A j \in DOMAIN Trace : j > i => ~IsDraw(Trace[j])) =>
              (last.call # "none" =>
                  \A p \in DOMAIN getScreen(Cur) : getScreen(Cur)[p] = 0)
    /\ AtClear(Cur) =>
          LET n == Cycle(Cur, 0)
          IN  /\ DOMAIN getScreen(n) =
                   0..(getScreenWidth * getScreenHeight - 1)
              /\ getScreenWidth = 64 /\ getScreenHeight = 32
              /\ \A p \in DOMAIN getScreen(n) : getScreen(n)[p] = 0
              /\ n.pc = pc + 2
              /\ n = [Cur EXCEPT !.screen = n.screen, !.pc = pc + 2]

\* The last cycle of a run was 00E0, on a display that the draw before it
\* had left after a collision; the display is blank now.
C17_Witness ==
    /\ last.call = "run"
    /\ Len(Trace) = CYCLES_PER_RUN
    /\ Trace[CYCLES_PER_RUN].opcode = 224
    /\ IsDraw(Trace[CYCLES_PER_RUN - 1])
    /\ pc = Trace[CYCLES_PER_RUN].pc + 2
    /\ V[15] = 1
    /\ I = FONT_START + 5
    /\ screen = {}

\* ------------------------------------------------------------------ C18

\* C18: init() is idempotent: from every reachable state, init() twice
\* leaves the same memory, registers, index, pc, stack, display, timers
\* and keypad as init() once; so a further init() after one that was
\* called changes nothing.
C18_InitIdempotent ==
    fault = "none" =>
        /\ InitMachine(InitMachine(Cur)) = InitMachine(Cur)
        /\ last.call = "init" => InitMachine(Cur) = Cur

\* init() was called after a program had run, with a timer counting and a
\* key down.
C18_Witness ==
    /\ last.call = "init"
    /\ nRuns > 0
    /\ soundTimer > 0
    /\ KeysDown(Cur) # {}
    /\ Mem(memory, PROGRAM_START) # 0
    /\ pc = PROGRAM_START

\* ------------------------------------------------------------------ C19

\* The machine is about to execute 3XNN, 4XNN, 5XY0 or 9XY0.
AtSkip(s) ==
    /\ s.fault = "none"
    /\ FetchInRange(s)
    /\ \/ Class(Opcode(s)) \in {3, 4}
       \/ Class(Opcode(s)) \in {5, 9} /\ N(Opcode(s)) = 0

\* The condition under which the skip at pc is to be taken.
SkipCondition(s) ==
    LET opcode == Opcode(s)
        vx == s.V[X(opcode)]
        vy == s.V[Y(opcode)]
    IN  CASE Class(opcode) = 3 -> vx = NN(opcode)
          [] Class(opcode) = 4 -> vx # NN(opcode)
          [] Class(opcode) = 5 -> vx = vy
          [] Class(opcode) = 9 -> vx # vy

\* C19: 3XNN skips (pc += 4) iff Vx = NN, 4XNN iff Vx != NN, 5XY0 iff
\* Vx = Vy and 9XY0 iff Vx != Vy; otherwise pc += 2; no register changes.
C19_SkipConditions ==
    AtSkip(Cur) =>
        Cycle(Cur, 0) =
            [Cur EXCEPT !.pc = pc + (IF SkipCondition(Cur) THEN 4 ELSE 2)]

\* ------------------------------------------------------------------ C20

\* The machine is about to execute 8XY4.
AtAddCarry(s) ==
    /\ s.fault = "none"
    /\ FetchInRange(s)
    /\ Class(Opcode(s)) = 8
    /\ N(Opcode(s)) = 4

\* C20: after 8XY4, for all x and y (15 included), register 15 is 1 if
\* Vx + Vy > 255 and 0 otherwise, from the values before the step; when
\* x != 15 register x holds (Vx + Vy) mod 256; pc advances by 2.
C20_AddWithCarry ==
    AtAddCarry(Cur) =>
        LET x == X(Opcode(Cur))
            y == Y(Opcode(Cur))
            n == Cycle(Cur, 0)
        IN  /\ n.V[15] = IF V[x] + V[y] > 255 THEN 1 ELSE 0
            /\ x # 15 => n.V[x] = (V[x] + V[y]) % 256
            /\ n.pc = pc + 2

\* ------------------------------------------------------------------ C21

\* The machine is about to execute 8XY5 or 8XY7.
AtSubtract(s) ==
    /\ s.fault = "none"
    /\ FetchInRange(s)
    /\ Class(Opcode(s)) = 8
    /\ N(Opcode(s)) \in {5, 7}

\* C21: after 8XY5 register x = (Vx - Vy) mod 256 and register 15 = 1 iff
\* Vx >= Vy; after 8XY7 register x = (Vy - Vx) mod 256 and register 15 = 1
\* iff Vy >= Vx; the values are those before the step.
C21_SubtractNotBorrow ==
    AtSubtract(Cur) =>
        LET x == X(Opcode(Cur))
            y == Y(Opcode(Cur))
            n == Cycle(Cur, 0)
            minuend == IF N(Opcode(Cur)) = 5 THEN V[x] ELSE V[y]
            subtrahend == IF N(Opcode(Cur)) = 5 THEN V[y] ELSE V[x]
        IN  /\ n.V[15] = IF minuend >= subtrahend THEN 1 ELSE 0
            /\ x # 15 => n.V[x] = (minuend - subtrahend) % 256

\* ------------------------------------------------------------------ C22

\* Register values and registers tried for Fx33.
BcdValues == {0, 9, 10, 99, 100, 199, 200, 255}
BcdRegisters == {0, 7, 15}

\* The program 6xVV A300 Fx33: register x := v, I := 0x300, BCD of Vx.
LoadThenBcd(x, v) ==
    Bytes(<< 6 * 4096 + x * 256 + v, \hA300, 15 * 4096 + x * 256 + 51 >>)

\* The bytes of mem outside the addresses R (bytes that are 0 are not
\* kept in mem).
MemOutside(mem, R) == [a \in DOMAIN mem \ R |-> mem[a]]

\* What Fx33 on register x does from s to n, for I + 2 inside memory.
BcdEffect(s, n, x) ==
    LET v == s.V[x]
    IN  /\ Mem(n.memory, s.I) = v \div 100
        /\ Mem(n.memory, s.I + 1) = (v \div 10) % 10
        /\ Mem(n.memory, s.I + 2) = v % 10
        /\ 100 * Mem(n.memory, s.I) + 10 * Mem(n.memory, s.I + 1)
              + Mem(n.memory, s.I + 2) = v
        /\ \A d \in 0..2 : Mem(n.memory, s.I + d) \in 0..9
        /\ MemOutside(n.memory, (s.I)..(s.I + 2)) =
              MemOutside(s.memory, (s.I)..(s.I + 2))
        /\ [n EXCEPT !.memory = s.memory] = [s EXCEPT !.pc = s.pc + 2]

AtBcd(s) ==
    /\ s.fault = "none"
    /\ FetchInRange(s)
    /\ Class(Opcode(s)) = 15
    /\ NN(Opcode(s)) = 51
    /\ s.I + 2 < MEMORY_SIZE

\* C22: Fx33 with I, I + 1, I + 2 inside memory writes v div 100,
\* (v div 10) mod 10 and v mod 10 there, digits in 0..9 that recompose v,
\* changes no other memory byte, no register and not I, and advances pc by
\* 2; for the register values of BcdValues and from every reachable state
\* about to execute it.
C22_BcdDigits ==
    /\ AtBcd(Cur) => BcdEffect(Cur, Cycle(Cur, 0), X(Opcode(Cur)))
    /\ (fault = "none" /\ last.call \in {"loadProgram", "emulateCycle"}) =>
          \A x \in BcdRegisters : \A v \in BcdValues :
              LET s == Cycle(Cycle(LoadMachine(Cur, LoadThenBcd(x, v), 6),
                                   0), 0)
              IN  /\ s.V[x] = v
                  /\ AtBcd(s)
                  /\ BcdEffect(s, Cycle(s, 0), x)

\* After two direct cycles set V0 = 234 and I = 0x300, a run began with
\* F033: the digits 2, 3, 4 are at 0x300.
C22_Witness ==
    /\ last.call = "run"
    /\ Trace[1].opcode = 61491
    /\ Trace[1].npc = Trace[1].pc + 2
    /\ V[0] = 234
    /\ I = 768
    /\ Mem(memory, 768) = 2
    /\ Mem(memory, 769) = 3
    /\ Mem(memory, 770) = 4

\* ------------------------------------------------------------------ C23

\* The last register transferred by the bulk store and load tried.
BulkRegisters == {0, 3, 15}

\* The program 60AA 6xBB A300 Fx55 6011 7x01 Fx65: two registers set, I set,
\* V0..Vx stored, two registers modified, V0..Vx loaded.
StoreThenLoad(x) ==
    Bytes(<< \h60AA, 6 * 4096 + x * 256 + 187, \hA300,
             15 * 4096 + x * 256 + 85, \h6011, 7 * 4096 + x * 256 + 1,
             15 * 4096 + x * 256 + 101 >>)

\* What Fx55 with last register x does from s to n, for I + x inside
\* memory.
StoreEffect(s, n, x) ==
    /\ \A i \in 0..x : Mem(n.memory, s.I + i) = s.V[i]
    /\ MemOutside(n.memory, (s.I)..(s.I + x)) =
          MemOutside(s.memory, (s.I)..(s.I + x))
    /\ [n EXCEPT !.memory = s.memory] = [s EXCEPT !.pc = s.pc + 2]

\* What Fx65 with last register x does from s to n.
LoadEffect(s, n, x) ==
    /\ \A i \in 0..x : n.V[i] = Mem(s.memory, s.I + i)
    /\ \A j \in DOMAIN s.V : j > x => n.V[j] = s.V[j]
    /\ [n EXCEPT !.V = s.V] = [s EXCEPT !.pc = s.pc + 2]

AtBulk(s, kk) ==
    /\ s.fault = "none"
    /\ FetchInRange(s)
    /\ Class(Opcode(s)) = 15
    /\ NN(Opcode(s)) = kk
    /\ s.I + X(Opcode(s)) < MEMORY_SIZE

\* The machine after n emulateCycle() calls from s, none using rand().
RECURSIVE CyclesFrom(_, _)
CyclesFrom(s, n) == IF n = 0 THEN s ELSE CyclesFrom(Cycle(s, 0), n - 1)

\* C23: Fx55 writes V0..Vx to memory[I..I+x] and changes no register and
\* not I; Fx65 reads them back; Fx55 followed later by Fx65 with the same
\* x and I restores V0..Vx to the stored values though they were modified
\* in between; registers x+1..15 are touched by neither.  For accesses
\* inside memory.
C23_StoreLoadRoundTrip ==
    /\ AtBulk(Cur, 85) => StoreEffect(Cur, Cycle(Cur, 0), X(Opcode(Cur)))
    /\ AtBulk(Cur, 101) => LoadEffect(Cur, Cycle(Cur, 0), X(Opcode(Cur)))
    /\ (fault = "none" /\ last.call \in {"loadProgram", "emulateCycle"}) =>
          \A x \in BulkRegisters :
              LET s0 == LoadMachine(Cur, StoreThenLoad(x), 14)
                  s3 == CyclesFrom(s0, 3)
                  s4 == Cycle(s3, 0)
                  s6 == CyclesFrom(s4, 2)
                  s7 == Cycle(s6, 0)
              IN  /\ AtBulk(s3, 85)
                  /\ StoreEffect(s3, s4, x)
                  /\ \E i \in 0..x : s6.V[i] # s3.V[i]
                  /\ AtBulk(s6, 101)
                  /\ LoadEffect(s6, s7, x)
                  /\ \A i \in 0..x : s7.V[i] = s3.V[i]
                  /\ \A j \in DOMAIN V : j > x => s7.V[j] = s0.V[j]
                  /\ s7.I = s3.I

\* After a run stored V0 = 0xAA and V1 = 0 and then changed both, a direct
\* emulateCycle() ran F165 and brought the stored values back.
C23_Witness ==
    /\ last.call = "emulateCycle"
    /\ Trace[1].opcode = 61797
    /\ Trace[1].fault = "none"
    /\ I = 768
    /\ Mem(memory, 768) = 170
    /\ Mem(memory, 769) = 0
    /\ V[0] = 170
    /\ V[1] = 0

\* ------------------------------------------------------------------ C24

\* A step of emulateCycle() or run().
ExecutingStep == nSteps' # nSteps \/ nRuns' # nRuns

\* An executing step taken at Fx0A with no key down: only the timers and
\* the accumulator may change, the timers only downwards, and every cycle
\* of the step was that same Fx0A.
WaitHolds ==
    (AtKeyWait(Cur) /\ KeysDown(Cur) = {} /\ ExecutingStep) =>
        /\ pc' = pc
        /\ V' = V
        /\ I' = I /\ sp' = sp /\ stack' = stack /\ memory' = memory
        /\ screen' = screen /\ keys' = keys /\ fault' = "none"
        /\ delayTimer' <= delayTimer
        /\ soundTimer' <= soundTimer
        /\ Len(last'.trace) = IF nRuns' # nRuns THEN CYCLES_PER_RUN ELSE 1
        /\ \A i \in DOMAIN last'.trace :
              /\ last'.trace[i].opcode = Opcode(Cur)
              /\ last'.trace[i].npc = pc

\* An executing step taken at Fx0A with a key down: its first cycle
\* advances pc by 2, and a single emulateCycle() leaves a key that is down
\* in register x.
WaitReleased ==
    (AtKeyWait(Cur) /\ KeysDown(Cur) # {} /\ ExecutingStep) =>
        /\ last'.trace[1].opcode = Opcode(Cur)
        /\ last'.trace[1].npc = pc + 2
        /\ nSteps' # nSteps =>
              (pc' = pc + 2 /\ V'[X(Opcode(Cur))] \in KeysDown(Cur))

\* The machine waits at Fx0A with a key down and the host has an
\* emulateCycle() left to call.
KeyPressedAtWait ==
    AtKeyWait(Cur) /\ KeysDown(Cur) # {} /\ nSteps < MaxSteps

\* C24: at Fx0A with no key down, pc and all registers stay unchanged over
\* executing steps, only the timers may decrease, and each step returns;
\* with a key down the next executor step stores a key index in register x
\* and advances pc; so once a key is down, the wait ends unless the host
\* lets the key go first.
C24_KeyWaitAcrossTicks ==
    /\ [][WaitHolds /\ WaitReleased]_vars
    /\ KeyPressedAtWait ~> (~AtKeyWait(Cur) \/ KeysDown(Cur) = {})

\* Two runs were made at F20A with no key down: all ten cycles of the
\* second one were that F20A again, and the machine still waits there.
C24_Witness ==
    /\ last.call = "run"
    /\ nRuns = 2
    /\ nSteps = 0
    /\ Len(Trace) = CYCLES_PER_RUN
    /\ \A i \in DOMAIN Trace :
          /\ IsKeyWait(Trace[i].opcode)
          /\ Trace[i].keysUp
          /\ Trace[i].npc = Trace[i].pc
    /\ AtKeyWait(Cur)
    /\ pc = PROGRAM_START

\* ------------------------------------------------------------------ C25

\* Elapsed times, in ms, tried from every state: those of DeltaInputs,
\* three periods exactly, and one ms less and more than a period.
CadenceDeltas == DeltaInputs \cup {16, 17, 50}

\* The decrement rounds of a tick that finds `total` units accumulated:
\* one per whole period while the time is at least a period, and one per
\* period while the time exceeds a period.
RoundsAtLeast(total) == total \div TIMER_INTERVAL

RoundsExceeding(total) ==
    IF total = 0 THEN 0 ELSE (total - 1) \div TIMER_INTERVAL

\* Machine s after `rounds` decrement rounds of a tick of deltaMs.
AfterRounds(s, deltaMs, rounds) ==
    [s EXCEPT
        !.delayTimer = CountDown(@, rounds),
        !.soundTimer = CountDown(@, rounds),
        !.timerAccumulator =
            @ + deltaMs * UNITS_PER_MS - rounds * TIMER_INTERVAL]

Accumulated(s, deltaMs) == s.timerAccumulator + deltaMs * UNITS_PER_MS

\* C25 as claimed: a tick adds elapsedMs to the accumulator and, while the
\* accumulated time exceeds the period, decrements both timers (floored at
\* 0) and subtracts a period; the leftover is non-negative and less than
\* one period.
C25_CadenceWhileExceeding ==
    /\ timerAccumulator \in 0..(TIMER_INTERVAL - 1)
    /\ \A d \in CadenceDeltas :
          /\ AdvanceTimers(Cur, d) =
                AfterRounds(Cur, d, RoundsExceeding(Accumulated(Cur, d)))
          /\ AdvanceTimers(Cur, d).timerAccumulator
                \in 0..(TIMER_INTERVAL - 1)

\* C25 as amended: the same with the rounds made while the accumulated
\* time is at least the period; the rounds depend on the accumulator and
\* elapsedMs only.
C25_CadenceWhileAtLeast ==
    /\ timerAccumulator \in 0..(TIMER_INTERVAL - 1)
    /\ \A d \in CadenceDeltas :
          /\ AdvanceTimers(Cur, d) =
                AfterRounds(Cur, d, RoundsAtLeast(Accumulated(Cur, d)))
          /\ AdvanceTimers(Cur, d).timerAccumulator
                \in 0..(TIMER_INTERVAL - 1)

\* Two runs of 1025 ms: the first left half a period, the second found
\* exactly 62 periods accumulated and made 62 rounds, leaving nothing; the
\* sound timer, set to 255 in the first, is at 255 - 61 - 62.
C25_Witness ==
    /\ last.call = "run"
    /\ last.arg = 1025
    /\ nRuns = 2
    /\ nSteps = 0
    /\ timerAccumulator = 0
    /\ soundTimer = 132

\* ------------------------------------------------------------------ C26

\* Register values and registers tried for Ex9E and ExA1.
KeyTestValues == {0, 1, 5, 15, 16, 17, 21, 245, 255}
KeyTestRegisters == {0, 2, 15}

\* The program 6xVV ExKK: register x := v, then the key test kk on Vx.
LoadThenKeyTest(x, v, kk) ==
    Bytes(<< 6 * 4096 + x * 256 + v, 14 * 4096 + x * 256 + kk >>)

\* The key index a key test on register x uses in s.
KeyIndex(s, x) == s.V[x] % 16

\* What Ex9E (down = TRUE) or ExA1 (down = FALSE) on register x does from
\* s to n.
KeyTestEffect(s, n, x, down) ==
    LET key == KeyIndex(s, x)
        skip == (s.keys[key] # 0) = down
    IN  /\ key \in 0..(NUM_KEYS - 1)
        /\ n.pc = s.pc + (IF skip THEN 4 ELSE 2)
        /\ n.keys = s.keys
        /\ n.V = s.V
        /\ [n EXCEPT !.pc = s.pc] = s

AtKeyTest(s, kk) ==
    /\ s.fault = "none"
    /\ FetchInRange(s)
    /\ Class(Opcode(s)) = 14
    /\ NN(Opcode(s)) = kk
    /\ s.pc + 4 < MEMORY_SIZE

\* C26: Ex9E advances pc by 4 iff the key of index Vx mod 16 is down, else
\* by 2; ExA1 by 4 iff that key is up, else by 2; with the same registers
\* and keypad exactly one of the two skips; the index is in 0..15 for every
\* register value and neither changes the keypad, a register or anything
\* but pc.
C26_KeyTests ==
    /\ AtKeyTest(Cur, 158) =>
          KeyTestEffect(Cur, Cycle(Cur, 0), X(Opcode(Cur)), TRUE)
    /\ AtKeyTest(Cur, 161) =>
          KeyTestEffect(Cur, Cycle(Cur, 0), X(Opcode(Cur)), FALSE)
    /\ fault = "none" =>
          \A x \in KeyTestRegisters : \A v \in KeyTestValues :
              LET d == Cycle(LoadMachine(Cur, LoadThenKeyTest(x, v, 158), 4),
                             0)
                  u == Cycle(LoadMachine(Cur, LoadThenKeyTest(x, v, 161), 4),
                             0)
                  dn == Cycle(d, 0)
                  un == Cycle(u, 0)
              IN  /\ d.V[x] = v /\ u.V[x] = v
                  /\ d.V = u.V /\ d.keys = u.keys /\ d.pc = u.pc
                  /\ AtKeyTest(d, 158)
                  /\ AtKeyTest(u, 161)
                  /\ KeyTestEffect(d, dn, x, TRUE)
                  /\ KeyTestEffect(u, un, x, FALSE)
                  /\ (dn.pc = d.pc + 4) # (un.pc = u.pc + 4)

\* Key 5 was stored in V2 by F20A and released; E29E then did not skip and
\* a run began with E2A1, which skipped.
C26_Witness ==
    /\ last.call = "run"
    /\ Trace[1].opcode = 58017
    /\ Trace[1].npc = Trace[1].pc + 4
    /\ Trace[1].pc = 516
    /\ V[2] = 5
    /\ keys[5] = 0

\* ------------------------------------------------------------------ C27

\* A trace entry of 00E0 or DXYN.
IsDisplayWrite(e) == e.opcode = 224 \/ IsDraw(e)

\* One emulateCycle() from the current state, for each value of rand():
\* the keypad is as before, and so is the display unless the opcode is
\* 00E0 or DXYN.
CycleFrame ==
    (fault = "none" /\ FetchInRange(Cur)) =>
        \A r \in (IF Class(Opcode(Cur)) = 12 THEN 0..255 ELSE {0}) :
            LET n == Cycle(Cur, r)
            IN  /\ n.keys = keys
                /\ (n.screen # screen) =>
                      (Opcode(Cur) = 224 \/ Class(Opcode(Cur)) = 13)

\* The timer loop of a tick changes neither display nor keypad.
TickFrame ==
    \A d \in DeltaInputs :
        /\ AdvanceTimers(Cur, d).screen = screen
        /\ AdvanceTimers(Cur, d).keys = keys

\* A step that changes a pixel is init() or an executing step with 00E0 or
\* DXYN among its cycles; a step that changes a key state is a key setter;
\* executing steps, init() and loadProgram() change none.
DisplayAndKeysFrame ==
    /\ (screen' # screen) =>
          \/ nInits' # nInits
          \/ /\ ExecutingStep
             /\ \E i \in DOMAIN last'.trace : IsDisplayWrite(last'.trace[i])
    /\ (keys' # keys) => KeySetterStep
    /\ KeySetterStep => screen' = screen

\* C27: a display pixel changes only in a step that executes 00E0 or DXYN
\* or in init(); no executor step and no tick changes a key state: the key
\* states change only in setKeyDown and setKeyUp.
C27_FrameCondition ==
    /\ [](CycleFrame /\ TickFrame)
    /\ [][DisplayAndKeysFrame]_vars

\* A run that drew left pixels lit while key 5, set by the host before it,
\* is still down.
C27_Witness ==
    /\ last.call = "run"
    /\ \E i \in DOMAIN Trace : IsDraw(Trace[i])
    /\ screen # {}
    /\ KeysDown(Cur) = {5}

\* ------------------------------------------------------------------ C28

\* C28: in the Atari 2600 stub a ROM larger than 4096 bytes is cut to its
\* first 4096 bytes, and after loadProgram and any number of emulateCycle
\* steps every memory read and write (the ROM copy at the load origin, the
\* opcode fetch at pc, the operand fetches at pc + 1 and pc + 2) uses an
\* index inside the 4096-byte memory array.
C28_AtariAccessInsideMemory ==
    /\ (atariLast.call = "loadProgram" /\ atariLast.arg > ROM_LIMIT) =>
          atariLast.copied = ROM_LIMIT
    /\ atari.fault = "none"

====
